---- MODULE Spec2Model ----
(***************************************************************************)
(* GenreBend Pro: the batch orchestrator (MusicOrganizerService) driving   *)
(* research (MusicResearchService), genre fusion (GenreDetectionService)   *)
(* and playlist matching (PlaylistMatchingService) against the Lexicon     *)
(* library store (LexiconService).                                         *)
(*                                                                         *)
(* Python strings are TLA+ strings; a Python None is the value NONE.       *)
(* A float confidence is an exact fraction [n |-> num, d |-> den].         *)
(***************************************************************************)
EXTENDS Integers, Sequences, FiniteSets, TLC

(***************************************************************************)
(* Bounds of the model.                                                    *)
(***************************************************************************)
\* the library holds at most this many tracks
MaxTracks == 3
\* BATCH_SIZE ranges over 1..MaxBatchSize
MaxBatchSize == 2
\* at most this many failing replies (store errors, failed or malformed
\* provider lookups) per run
MaxFaults == 1

(***************************************************************************)
(* Python values.                                                          *)
(***************************************************************************)
NONE == "<None>"

\* python truthiness of an Optional[str]
Truthy(s) == s # NONE /\ s # ""

UpperChars == "ABCDEFGHIJKLMNOPQRSTUVWXYZ"
LowerChars == "abcdefghijklmnopqrstuvwxyz"

\* str.lower() of one character
LowerChar(c) ==
    IF \E i \in 1..Len(UpperChars) : SubSeq(UpperChars, i, i) = c
    THEN LET i == CHOOSE i \in 1..Len(UpperChars) : SubSeq(UpperChars, i, i) = c
         IN  SubSeq(LowerChars, i, i)
    ELSE c

RECURSIVE Lower(_)
\* str.lower()
Lower(s) ==
    IF Len(s) = 0 THEN ""
    ELSE LowerChar(SubSeq(s, 1, 1)) \o Lower(SubSeq(s, 2, Len(s)))

\* needle in hay (substring test)
Contains(needle, hay) ==
    \E i \in 1..(Len(hay) - Len(needle) + 1) :
        SubSeq(hay, i, i + Len(needle) - 1) = needle

IsSpace(c) == c = " "

RECURSIVE LStrip(_)
LStrip(s) ==
    IF Len(s) > 0 /\ IsSpace(SubSeq(s, 1, 1)) THEN LStrip(SubSeq(s, 2, Len(s))) ELSE s

RECURSIVE RStrip(_)
RStrip(s) ==
    IF Len(s) > 0 /\ IsSpace(SubSeq(s, Len(s), Len(s)))
    THEN RStrip(SubSeq(s, 1, Len(s) - 1)) ELSE s

\* str.strip()
Strip(s) == LStrip(RStrip(s))

\* the elements of a sequence
Range(seq) == {seq[i] : i \in 1..Len(seq)}

\* the orders in which python may iterate a set (list(set(...)))
Orderings(S) ==
    {seq \in [1..Cardinality(S) -> S] : \A x \in S : \E i \in 1..Cardinality(S) : seq[i] = x}

(***************************************************************************)
(* Fractions (float confidences).                                          *)
(***************************************************************************)
Frac(num, den) == [n |-> num, d |-> den]
FracLt(a, b) == a.n * b.d < b.n * a.d
FracEq(a, b) == a.n * b.d = b.n * a.d
FracLe(a, b) == a.n * b.d <= b.n * a.d
FracMul(a, b) == [n |-> a.n * b.n, d |-> a.d * b.d]
Zero == Frac(0, 1)
One == Frac(1, 1)

(***************************************************************************)
(* The Genre enumeration (models/track_models.py), by its .value strings.  *)
(***************************************************************************)
UNKNOWN == "Unknown"

Genre ==
    {"House", "Deep House", "Techno", "Trance", "Dubstep", "Drum & Bass",
     "Breakbeat", "Ambient", "Downtempo", "Progressive", "Future Bass", "Trap",
     "Hip Hop", "Industrial", "Chillout", "Electronic", "Experimental", UNKNOWN}

(***************************************************************************)
(* MusicResearchService                                                    *)
(***************************************************************************)
remix_keywords ==
    <<"remix", "edit", "version", "mix", "rework", "reinterpretation",
      "bootleg", "mashup", "flip", "flip", "refix", "vip", "dub",
      "instrumental", "acapella", "extended", "radio edit">>

\* for keyword in self.remix_keywords: if keyword in text
HasRemixKeyword(text) ==
    \E i \in 1..Len(remix_keywords) : Contains(remix_keywords[i], text)

\* A tag object of a payload: a dict with or without 'name', or a non-dict.
Tag(name) == [isdict |-> TRUE, hasname |-> TRUE, name |-> name]

\* A tag field {'tag': ...}: kind "absent" (no key), "list", "single" (one
\* dict), "scalar" (neither list nor dict), "nodict" (the container holding
\* 'tag' is itself not a dict).
TagField(kind, items) == [kind |-> kind, items |-> items]
NoTags == TagField("absent", <<>>)

\* the names one tag field contributes to the pooled set; lines 209-215
TagNames(field) ==
    IF field.kind = "list"
    THEN {field.items[i].name : i \in {i \in 1..Len(field.items) :
              field.items[i].isdict /\ field.items[i].hasname}}
    ELSE IF field.kind = "single" /\ field.items[1].hasname
    THEN {field.items[1].name}
    ELSE {}

\* x.get('toptags', {}).get('tag', []) raises AttributeError on a non-dict
TagFieldRaises(field) == field.kind = "nodict"

NoLastfm ==
    [present |-> FALSE, name |-> "", artist |-> [isdict |-> TRUE, name |-> ""],
     toptags |-> NoTags, artist_info |-> [present |-> FALSE, tags |-> NoTags],
     similar_tracks |-> <<>>, playcount |-> NONE]

NoMusicbrainz ==
    [present |-> FALSE, title |-> "", artist_credit |-> "", taglist |-> NoTags]

\* _detect_remix: "true", "false" or "raise" (an AttributeError of .get or
\* .lower on a value of the wrong type)
DetectRemix(track, lf, mb) ==
    IF track.title = NONE THEN "raise"
    ELSE IF HasRemixKeyword(Lower(track.title)) THEN "true"
    ELSE IF track.artist = NONE THEN "raise"
    ELSE IF HasRemixKeyword(Lower(track.artist)) THEN "true"
    ELSE IF lf.present /\ (lf.name = NONE \/ ~lf.artist.isdict \/ lf.artist.name = NONE)
    THEN "raise"
    ELSE IF lf.present /\ (HasRemixKeyword(Lower(lf.name))
                           \/ HasRemixKeyword(Lower(lf.artist.name)))
    THEN "true"
    ELSE IF mb.present /\ (mb.title = NONE \/ mb.artist_credit = NONE) THEN "raise"
    ELSE IF mb.present /\ (HasRemixKeyword(Lower(mb.title))
                           \/ HasRemixKeyword(Lower(mb.artist_credit)))
    THEN "true"
    ELSE "false"

\* _combine_genres raises when a tag container is not a dict
CombineGenresRaises(lf, mb) ==
    lf.present /\ (\/ TagFieldRaises(lf.toptags)
                   \/ (lf.artist_info.present /\ TagFieldRaises(lf.artist_info.tags))
                   \/ \E i \in 1..Len(lf.similar_tracks) :
                          TagFieldRaises(lf.similar_tracks[i].toptags))

\* _combine_genres: the set `genres` before list(genres)
CombineGenres(lf, mb) ==
    (IF lf.present
     THEN TagNames(lf.toptags)
          \cup (IF lf.artist_info.present THEN TagNames(lf.artist_info.tags) ELSE {})
          \cup UNION {TagNames(lf.similar_tracks[i].toptags) :
                          i \in 1..Len(lf.similar_tracks)}
     ELSE {})
    \cup (IF mb.present THEN TagNames(mb.taglist) ELSE {})

\* _calculate_confidence, in hundredths
SourceConfidence(lf, mb, genres) ==
    LET sources_found == (IF lf.present THEN 1 ELSE 0) + (IF mb.present THEN 1 ELSE 0)
        base == IF sources_found = 2 THEN 80 ELSE IF sources_found = 1 THEN 60 ELSE 0
        c1 == base + (IF genres # {} THEN 10 ELSE 0)
        c2 == c1 + (IF lf.present /\ lf.artist_info.present THEN 5 ELSE 0)
        c3 == c2 + (IF lf.present /\ Len(lf.similar_tracks) > 0 THEN 5 ELSE 0)
        c4 == c3 + (IF lf.present /\ Truthy(lf.playcount) THEN 5 ELSE 0)
    IN  Frac(IF c4 < 100 THEN c4 ELSE 100, 100)

\* research_track: does it raise
ResearchRaises(track, lf, mb) ==
    DetectRemix(track, lf, mb) = "raise" \/ CombineGenresRaises(lf, mb)

\* research_track: the MusicResearchResult, combined_genres in the order
\* `order` that list(set) produced
ResearchResult(track, lf, mb, order) ==
    [is_remix |-> DetectRemix(track, lf, mb) = "true",
     combined_genres |-> order,
     confidence |-> SourceConfidence(lf, mb, CombineGenres(lf, mb)),
     lastfm_found |-> lf.present,
     musicbrainz_found |-> mb.present]

(***************************************************************************)
(* GenreDetectionService                                                   *)
(***************************************************************************)
genre_mapping_keys ==
    {"house", "deep house", "progressive house", "techno", "trance",
     "progressive trance", "dubstep", "drum and bass", "dnb", "breakbeat",
     "ambient", "downtempo", "future bass", "trap", "electronic", "experimental"}

\* self.genre_mapping.get(name, Genre.UNKNOWN)
genre_mapping(name) ==
    CASE name = "house" -> "House"
      [] name = "deep house" -> "Deep House"
      [] name = "progressive house" -> "Progressive"
      [] name = "techno" -> "Techno"
      [] name = "trance" -> "Trance"
      [] name = "progressive trance" -> "Trance"
      [] name = "dubstep" -> "Dubstep"
      [] name = "drum and bass" -> "Drum & Bass"
      [] name = "dnb" -> "Drum & Bass"
      [] name = "breakbeat" -> "Breakbeat"
      [] name = "ambient" -> "Ambient"
      [] name = "downtempo" -> "Downtempo"
      [] name = "future bass" -> "Future Bass"
      [] name = "trap" -> "Trap"
      [] name = "electronic" -> "Electronic"
      [] name = "experimental" -> "Experimental"
      [] OTHER -> UNKNOWN

\* the acceptance threshold of the audio prediction (line 65)
AudioThreshold == Frac(7, 10)

\* a remix factor that leaves the confidence as it is
NoRemixPenalty == One

\* the remix factor (line 222)
RemixPenalty == Frac(8, 10)

\* genre_counts[g] after the counting loop (lines 204-207)
GenreCount(genres, g) == Cardinality({i \in 1..Len(genres) : Lower(genres[i]) = g})

\* max(genre_counts.items(), key=count): the first key, in insertion order,
\* whose count is the largest
MostCommon(genres) ==
    LET first == CHOOSE i \in 1..Len(genres) :
                     /\ \A k \in 1..Len(genres) :
                            GenreCount(genres, Lower(genres[k]))
                                <= GenreCount(genres, Lower(genres[i]))
                     /\ \A k \in 1..(i - 1) :
                            GenreCount(genres, Lower(genres[k]))
                                < GenreCount(genres, Lower(genres[i]))
    IN  Lower(genres[first])

\* _predict_from_metadata raises: genre.lower() on a tag name that is None
MetadataRaises(research) ==
    \E i \in 1..Len(research.combined_genres) : research.combined_genres[i] = NONE

\* the vote with the ratio upside down: the total over the winner's count
MetadataVoteInverted(research) ==
    LET genres == research.combined_genres
    IN  IF Len(genres) = 0
        THEN [genre |-> UNKNOWN, confidence |-> Zero]
        ELSE [genre |-> genre_mapping(MostCommon(genres)),
              confidence |-> Frac(Len(genres), GenreCount(genres, MostCommon(genres)))]

\* the vote of _predict_from_metadata before the remix adjustment
MetadataVote(research) ==
    LET genres == research.combined_genres
    IN  IF Len(genres) = 0
        THEN [genre |-> UNKNOWN, confidence |-> Zero]
        ELSE [genre |-> genre_mapping(MostCommon(genres)),
              confidence |-> Frac(GenreCount(genres, MostCommon(genres)), Len(genres))]

\* the remix adjustment of _predict_from_metadata (lines 219-222)
RemixAdjust(research, vote) ==
    IF research.is_remix /\ vote.genre # UNKNOWN
    THEN [vote EXCEPT !.confidence = FracMul(vote.confidence, RemixPenalty)]
    ELSE vote

\* _predict_from_metadata
PredictFromMetadata(research) == RemixAdjust(research, MetadataVote(research))

\* What the audio side gives for one track: whether file_path is set and the
\* file exists, whether features were extracted, and the classifier's class
\* name (classes_[prediction]) and top probability. The label is NONE when
\* the prediction raised, which _predict_from_audio catches (lines 190-192).
Audio(exists, features, label, prob) ==
    [exists |-> exists, features |-> features, label |-> label, prob |-> prob]
NoAudio == Audio(FALSE, FALSE, "", Zero)

\* _predict_from_audio
PredictFromAudio(trained, audio) ==
    IF ~trained \/ audio.label = NONE
    THEN [genre |-> UNKNOWN, confidence |-> Zero]
    ELSE [genre |-> genre_mapping(Lower(audio.label)), confidence |-> audio.prob]

\* whether analyze_track takes the audio prediction (lines 55-60)
AudioTried(trained, audio) == audio.exists /\ trained /\ audio.features

\* the fallback test without its UNKNOWN half
FallsBackOnLowConfidence(trained, audio) ==
    \/ ~AudioTried(trained, audio)
    \/ FracLt(PredictFromAudio(trained, audio).confidence, AudioThreshold)

\* whether analyze_track falls back to the metadata vote (line 65)
FallsBack(trained, audio) ==
    \/ ~AudioTried(trained, audio)
    \/ PredictFromAudio(trained, audio).genre = UNKNOWN
    \/ FracLt(PredictFromAudio(trained, audio).confidence, AudioThreshold)

\* analyze_track: the GenreAnalysis
AnalyzeTrack(trained, audio, research) ==
    LET p == IF FallsBack(trained, audio)
             THEN PredictFromMetadata(research)
             ELSE PredictFromAudio(trained, audio)
    IN  [present |-> TRUE,
         predicted_genre |-> p.genre,
         confidence |-> p.confidence,
         is_remix |-> research.is_remix,
         analysis_method |-> IF FallsBack(trained, audio)
                             THEN "metadata_analysis" ELSE "audio_analysis"]

\* analyze_track raises only through the metadata vote
AnalyzeRaises(trained, audio, research) ==
    FallsBack(trained, audio) /\ MetadataRaises(research)

(***************************************************************************)
(* PlaylistMatchingService                                                 *)
(***************************************************************************)
\* _normalize_genre_name
normalize_genre_name(genre_name) ==
    IF ~Truthy(genre_name) THEN ""
    ELSE LET normalized == Strip(Lower(genre_name))
         IN  CASE normalized = "drum and bass" -> "drum & bass"
               [] normalized = "dnb" -> "drum & bass"
               [] normalized = "d&b" -> "drum & bass"
               [] normalized = "progressive house" -> "progressive"
               [] normalized = "progressive trance" -> "progressive"
               [] normalized = "deep house" -> "house"
               [] normalized = "future bass" -> "bass"
               [] normalized = "trap" -> "hip hop"
               [] OTHER -> normalized

\* _build_genre_similarity_matrix, read with .get(genre, [])
genre_similarity_matrix(genre) ==
    CASE genre = "House" -> <<"Deep House", "Progressive", "Techno">>
      [] genre = "Deep House" -> <<"House", "Ambient", "Downtempo">>
      [] genre = "Techno" -> <<"House", "Industrial", "Experimental">>
      [] genre = "Trance" -> <<"Progressive", "Ambient", "Electronic">>
      [] genre = "Dubstep" -> <<"Drum & Bass", "Trap", "Future Bass">>
      [] genre = "Drum & Bass" -> <<"Dubstep", "Breakbeat", "Techno">>
      [] genre = "Breakbeat" -> <<"Drum & Bass", "Techno", "Experimental">>
      [] genre = "Ambient" -> <<"Downtempo", "Deep House", "Experimental">>
      [] genre = "Downtempo" -> <<"Ambient", "Deep House", "Chillout">>
      [] genre = "Progressive" -> <<"Trance", "House", "Electronic">>
      [] genre = "Future Bass" -> <<"Dubstep", "Trap", "Electronic">>
      [] genre = "Trap" -> <<"Hip Hop", "Dubstep", "Future Bass">>
      [] genre = "Electronic" -> <<"Techno", "Trance", "Progressive">>
      [] genre = "Experimental" -> <<"Ambient", "Techno", "Breakbeat">>
      [] OTHER -> <<>>

\* the two checks of one playlist against one genre (lines 41-51, 64-73)
GenreMatchesPlaylist(genre, playlist) ==
    \/ normalize_genre_name(playlist.genre) = normalize_genre_name(genre)
    \/ Contains(normalize_genre_name(genre), Lower(playlist.name))

\* _find_direct_genre_matches, as the set of ids it lists
find_direct_genre_matches(genre, playlists) ==
    {playlists[i].id : i \in {i \in 1..Len(playlists) :
                                  GenreMatchesPlaylist(genre, playlists[i])}}

\* _find_similar_genre_matches, as the set of ids it lists
find_similar_genre_matches(genre, playlists) ==
    LET similar_genres == genre_similarity_matrix(genre)
    IN  {playlists[i].id : i \in {i \in 1..Len(playlists) :
             \E g \in 1..Len(similar_genres) :
                 GenreMatchesPlaylist(similar_genres[g], playlists[i])}}

playlist_remix_keywords == <<"remix", "edit", "version", "mix", "rework">>

\* every playlist with a remix-style name, whatever its genre
RemixNamedPlaylists(genre, playlists) ==
    {playlists[i].id : i \in {i \in 1..Len(playlists) :
         \E k \in 1..Len(playlist_remix_keywords) :
             Contains(playlist_remix_keywords[k], Lower(playlists[i].name))}}

\* _find_remix_specific_matches, as the set of ids it lists
find_remix_specific_matches(genre, playlists) ==
    {playlists[i].id : i \in {i \in 1..Len(playlists) :
         /\ \E k \in 1..Len(playlist_remix_keywords) :
                Contains(playlist_remix_keywords[k], Lower(playlists[i].name))
         /\ GenreMatchesPlaylist(genre, playlists[i])}}

\* match_track_to_playlists raises: playlist.name.lower() on a name that is None
MatchRaises(playlists) == \E i \in 1..Len(playlists) : playlists[i].name = NONE

\* a matcher made of the direct and the remix-specific pass only
MatchWithoutSimilarPass(analysis, playlists) ==
    find_direct_genre_matches(analysis.predicted_genre, playlists)
    \cup (IF analysis.is_remix
          THEN find_remix_specific_matches(analysis.predicted_genre, playlists)
          ELSE {})

\* match_track_to_playlists: set(matched_playlists)
match_track_to_playlists(analysis, playlists) ==
    find_direct_genre_matches(analysis.predicted_genre, playlists)
    \cup find_similar_genre_matches(analysis.predicted_genre, playlists)
    \cup (IF analysis.is_remix
          THEN find_remix_specific_matches(analysis.predicted_genre, playlists)
          ELSE {})

(***************************************************************************)
(* The Lexicon library store and the answers of the metadata providers.    *)
(***************************************************************************)
\* TrackInfo.confidence_score: None, or a float
NoScore == [has |-> FALSE, n |-> 0, d |-> 1]
Score(num, den) == [has |-> TRUE, n |-> num, d |-> den]

\* the default of TrackInfo.confidence_score, which get_tracks never passes
DefaultConfidenceScore == NoScore

TrackInfo(id, title, artist, genre, score, path) ==
    [id |-> id, title |-> title, artist |-> artist, current_genre |-> genre,
     confidence_score |-> score, file_path |-> path]

\* get_tracks, lines 43-54: the TrackInfo built from the store's n-th track
LibraryTrack(n) ==
    CASE n % 3 = 1 -> TrackInfo(n, "Strobe (Extended Mix)", "Deadmau5", NONE,
                                DefaultConfidenceScore, NONE)
      [] n % 3 = 2 -> TrackInfo(n, "Song", "The Artist", "Progressive",
                                DefaultConfidenceScore, NONE)
      [] OTHER -> TrackInfo(n, "01 - Track.mp3", "A Band", "House",
                            DefaultConfidenceScore, "/music/track.mp3")

PlaylistInfo(id, name, genre) == [id |-> id, name |-> name, genre |-> genre]

\* get_playlists, lines 98-106: the PlaylistInfo objects of the store
LibraryPlaylists ==
    <<PlaylistInfo(1, "Progressive House", ""),
      PlaylistInfo(2, "Prog Remixes", "progressive"),
      PlaylistInfo(3, "Sunday", "Ambient ")>>

\* a playlist whose name is null in the store
NamelessPlaylist == PlaylistInfo(2, NONE, "house")

\* a store holding these tracks and playlists; the first playlist already
\* holds track 1
Store(ts, ps) ==
    [tracks |-> ts,
     playlists |-> ps,
     members |-> [x \in {ps[y].id : y \in 1..Len(ps)} |->
                     IF x = 1 THEN {ts[y].id : y \in 1..Len(ts)} \cap {1} ELSE {}]]

\* the library of n tracks
Library(n) == Store([x \in 1..n |-> LibraryTrack(x)], LibraryPlaylists)

Libraries == {Library(n) : n \in 0..MaxTracks}

\* _search_lastfm: what it returns for a track (None, or track_data)
Lastfm(name, artist, toptags, playcount) ==
    [present |-> TRUE, name |-> name, artist |-> artist, toptags |-> toptags,
     artist_info |-> [present |-> FALSE, tags |-> NoTags],
     similar_tracks |-> <<>>, playcount |-> playcount]

ArtistDict(name) == [isdict |-> TRUE, name |-> name]
ArtistString == [isdict |-> FALSE, name |-> ""]

LastfmProgressive ==
    Lastfm("Strobe", ArtistDict("deadmau5"),
           TagField("list", <<Tag("progressive house")>>), "1200")
LastfmTechno ==
    Lastfm("Song", ArtistDict("Artist"), TagField("single", <<Tag("Techno")>>), NONE)
LastfmRock ==
    Lastfm("Song", ArtistDict("Artist"), TagField("list", <<Tag("rock")>>), NONE)

\* track tags that repeat one tag in other spellings
LastfmCaseVariants ==
    Lastfm("Song", ArtistDict("Artist"),
           TagField("list", <<Tag("Techno"), Tag("TECHNO"), Tag("rock")>>), NONE)

\* payloads on which research_track raises
LastfmMalformed ==
    {Lastfm("Song", ArtistDict("Artist"), TagField("nodict", <<>>), NONE),
     Lastfm("Song", ArtistString, NoTags, NONE)}

\* _search_musicbrainz: what it returns for a track (None, or the best match)
Musicbrainz(title, artist_credit, taglist) ==
    [present |-> TRUE, title |-> title, artist_credit |-> artist_credit,
     taglist |-> taglist]

MusicbrainzProgressive ==
    Musicbrainz("Strobe", "deadmau5", TagField("list", <<Tag("progressive house")>>))
MusicbrainzRemix ==
    Musicbrainz("Song (Remix)", "Artist", TagField("list", <<Tag("Progressive House")>>))

MusicbrainzTechno ==
    Musicbrainz("Song", "Artist", TagField("list", <<Tag("techno")>>))

\* a payload on which analyze_track raises (a tag whose name is null)
MusicbrainzMalformed ==
    {Musicbrainz("Song", "Artist", TagField("list", <<Tag(NONE)>>))}

\* What Last.fm holds for a track's (artist, title): the answers a lookup
\* that works may give.
LastfmAnswers(t) ==
    CASE t.title = "Strobe (Extended Mix)" -> {LastfmProgressive}
      [] t.title = "Song" -> {NoLastfm}
      [] t.title = "01 - Track.mp3" -> {NoLastfm}
      [] t.title = "Other Song" -> {LastfmCaseVariants}
      [] OTHER -> {NoLastfm, LastfmProgressive, LastfmTechno, LastfmRock}

\* What MusicBrainz holds for a track's (artist, title).
MusicbrainzAnswers(t) ==
    CASE t.title = "Strobe (Extended Mix)" -> {MusicbrainzProgressive}
      [] t.title = "Song" -> {MusicbrainzRemix}
      [] t.title = "01 - Track.mp3" -> {NoMusicbrainz}
      [] t.title = "Other Song" -> {MusicbrainzTechno}
      [] OTHER -> {NoMusicbrainz, MusicbrainzProgressive, MusicbrainzRemix}

\* A lookup that does not work: the request failed (the search returns None)
\* or the payload is malformed.
LastfmFailures == {NoLastfm} \cup LastfmMalformed
MusicbrainzFailures == {NoMusicbrainz} \cup MusicbrainzMalformed

\* What a Lexicon request does: "ok"; "fail", a RequestException, which
\* _make_request turns into None; "raise", a reply that makes the call raise
\* (a body that is not JSON, or JSON of another shape than the caller reads).
\* A request that fails or raises leaves the store as it was.
StoreReplies == {"ok", "fail", "raise"}

(***************************************************************************)
(* MusicOrganizerService: the state of one run.                            *)
(***************************************************************************)
VARIABLES
    pc,               \* the statement the run is at
    dry_run,          \* the argument of organize_music_collection
    batch_size,       \* self.batch_size
    is_trained,       \* genre_detection_service.is_trained
    lexicon,          \* the Library store: tracks, playlists, members
    tracks,           \* the fetched tracks
    playlists,        \* the fetched playlists (the snapshot)
    i,                \* the offset of the batch loop (line 98)
    batch,            \* tracks[i:i + batch_size]
    j,                \* the position in the batch, from 1 (line 128)
    results,          \* the accumulator of _process_tracks_batch
    batch_results,    \* the accumulator of _process_batch
    result,           \* the result dict of _process_single_track
    lastfm_data,      \* lastfm_data of research_track
    musicbrainz_data, \* musicbrainz_data of research_track
    research,         \* research_result
    audio,            \* what the audio side gave analyze_track for the track
    analysis,         \* analysis
    matched,          \* matched_playlists, in iteration order
    k,                \* the position in matched_playlists, from 1
    existing_tracks,  \* existing_tracks (line 218)
    additions,        \* the local playlist_additions (line 214)
    outcome,          \* what organize_music_collection returned
    tlog,             \* history: the calls made for the current track
    rlog,             \* history: the run's health check, fetches, batches, sleeps
    added,            \* history: the <<playlist, track>> adds the store accepted
    faults,           \* history: the failing replies so far
    call              \* a service method called on its own: op, arguments, ret

vars ==
    <<pc, dry_run, batch_size, is_trained, lexicon, tracks, playlists, i, batch, j,
      results, batch_results, result, lastfm_data, musicbrainz_data, research,
      audio, analysis, matched, k,
      existing_tracks, additions, outcome, tlog, rlog, added, faults, call>>

\* the threshold set at one half instead
LowThreshold == Frac(1, 2)

\* self.confidence_threshold (CONFIDENCE_THRESHOLD, default 0.7)
confidence_threshold == Frac(7, 10)

\* the bar of the skip check (line 174)
HighConfidence == Frac(8, 10)

NoResearch ==
    [is_remix |-> FALSE, combined_genres |-> <<>>, confidence |-> Zero,
     lastfm_found |-> FALSE, musicbrainz_found |-> FALSE]

\* result['analysis'] = None
NoAnalysis ==
    [present |-> FALSE, predicted_genre |-> UNKNOWN, confidence |-> Zero,
     is_remix |-> FALSE, analysis_method |-> "metadata_only"]

\* the counters of lines 88-95 and 119-126
EmptyResults ==
    [processed |-> 0, updated |-> 0, playlist_additions |-> 0, errors |-> 0,
     skipped |-> 0, details |-> <<>>]

\* the result dict of lines 160-170
NewResult(track) ==
    [track_id |-> track.id, success |-> FALSE, updated |-> FALSE,
     playlist_additions |-> 0, skipped |-> FALSE, error |-> NONE,
     analysis |-> NoAnalysis, matched_playlists |-> <<>>]

NoResult == NewResult([id |-> 0])

\* _generate_summary
generate_summary(res) ==
    LET analysed == {d \in 1..Len(res.details) : res.details[d].analysis.present}
        genre_of(d) == res.details[d].analysis.predicted_genre
        remixes == {d \in analysed : res.details[d].analysis.is_remix}
    IN  [total_processed |-> res.processed,
         tracks_updated |-> res.updated,
         playlist_additions |-> res.playlist_additions,
         errors |-> res.errors,
         skipped |-> res.skipped,
         success_rate |-> IF res.processed > 0
                          THEN Frac(res.processed - res.errors, res.processed)
                          ELSE Zero,
         genre_distribution |->
             [g \in {genre_of(d) : d \in analysed} |->
                 Cardinality({d \in analysed : genre_of(d) = g})],
         total_remixes |-> Cardinality(remixes),
         processed_remixes |-> Cardinality({d \in remixes : res.details[d].success})]

\* organize_music_collection has not returned
NotReturned ==
    [returned |-> FALSE, success |-> FALSE, error |-> FALSE, message |-> FALSE,
     has_summary |-> FALSE, summary |-> generate_summary(EmptyResults)]

\* the three returns of organize_music_collection without a summary
ReturnError == [NotReturned EXCEPT !.returned = TRUE, !.error = TRUE]
ReturnNoTracks == [NotReturned EXCEPT !.returned = TRUE, !.success = TRUE, !.message = TRUE]

\* the track _process_single_track is working on
track == batch[j]

\* the skip check with >= in place of >
SkipsAtHighConfidence(t) ==
    /\ Truthy(t.current_genre)
    /\ t.confidence_score.has /\ t.confidence_score.n # 0
    /\ FracLe(HighConfidence, t.confidence_score)

\* the skip check of line 174
SkipsHighConfidence(t) ==
    /\ Truthy(t.current_genre)
    /\ t.confidence_score.has /\ t.confidence_score.n # 0
    /\ FracLt(HighConfidence, t.confidence_score)

\* one entry of the history of calls: the call, the playlist it names, how it
\* ended, and whether the track was in that playlist when it was made
Call(op, playlist, ret, member) ==
    [op |-> op, playlist |-> playlist, ret |-> ret, member |-> member]

\* one entry of the history of the run: a call (and whether it worked), a
\* batch (its offset and length) or a delay
Event(op, first, size, ok) == [op |-> op, first |-> first, size |-> size, ok |-> ok]

\* a reply other than "ok" is a failing reply, and a run sees at most MaxFaults
Allowed(reply) == reply = "ok" \/ faults < MaxFaults
Counted(reply) == IF reply = "ok" THEN faults ELSE faults + 1

\* the except clause of line 233: result['error'] = str(e)
Caught(r) == [r EXCEPT !.error = "exception"]

\* a rejected genre write that is let through as a success
FailedUpdateLetThrough(r) ==
    [r EXCEPT !.error = "Failed to update genre", !.success = TRUE]

\* lines 203-206: the genre write was rejected
FailedUpdate(r) == [r EXCEPT !.error = "Failed to update genre"]

\* no service method has been called on its own
NoCall == [op |-> "none", args |-> <<>>, ret |-> NONE]

InitLocals ==
    /\ result = NoResult
    /\ call = NoCall
    /\ lastfm_data = NoLastfm
    /\ musicbrainz_data = NoMusicbrainz
    /\ research = NoResearch
    /\ audio = NoAudio
    /\ analysis = NoAnalysis
    /\ matched = <<>>
    /\ k = 1
    /\ existing_tracks = {}
    /\ additions = 0
    /\ tlog = <<>>

\* after construction, before organize_music_collection(dry_run)
Init ==
    /\ pc = "connect"
    /\ dry_run \in BOOLEAN
    /\ batch_size \in 1..MaxBatchSize
    /\ is_trained = FALSE
    /\ lexicon \in Libraries
    /\ tracks = <<>>
    /\ playlists = <<>>
    /\ i = 0
    /\ batch = <<>>
    /\ j = 1
    /\ results = EmptyResults
    /\ batch_results = EmptyResults
    /\ InitLocals
    /\ outcome = NotReturned
    /\ rlog = <<>>
    /\ added = {}
    /\ faults = 0

(***************************************************************************)
(* organize_music_collection: CONNECT and FETCH                            *)
(***************************************************************************)
\* the run going on to the fetch whatever the health check said
ConnectIgnoringFailure ==
    /\ pc = "connect"
    /\ \E ok \in BOOLEAN :
        rlog' = Append(rlog, Event("health_check", 0, 0, ok))
    /\ pc' = "fetch_tracks"
    /\ UNCHANGED <<call, dry_run, batch_size, is_trained, lastfm_data, musicbrainz_data,
                   audio, lexicon, tracks, playlists, i,
                   batch, j, results, batch_results, result, research, analysis,
                   matched, k, existing_tracks, additions, outcome, tlog, added,
                   faults>>

\* lines 48-51: test_connection
Connect ==
    /\ pc = "connect"
    /\ \E ok \in BOOLEAN :
        /\ rlog' = Append(rlog, Event("health_check", 0, 0, ok))
        /\ IF ok
           THEN pc' = "fetch_tracks" /\ outcome' = outcome
           ELSE pc' = "done" /\ outcome' = ReturnError
    /\ UNCHANGED <<call, dry_run, batch_size, is_trained, lastfm_data, musicbrainz_data,
                   audio, lexicon, tracks, playlists, i,
                   batch, j, results, batch_results, result, research, analysis,
                   matched, k, existing_tracks, additions, tlog, added, faults>>

\* lines 54-61: get_all_tracks. The library is shorter than one page of 100,
\* so the paging loop of get_all_tracks makes one request.
FetchTracks ==
    /\ pc = "fetch_tracks"
    /\ \E reply \in StoreReplies :
        /\ Allowed(reply)
        /\ faults' = Counted(reply)
        /\ rlog' = Append(rlog, Event("get_all_tracks", 0, 0, reply = "ok"))
        /\ tracks' = IF reply = "ok" THEN lexicon.tracks ELSE <<>>
        /\ IF reply = "raise"
           THEN pc' = "done" /\ outcome' = ReturnError
           ELSE IF tracks' = <<>>
           THEN pc' = "done" /\ outcome' = ReturnNoTracks
           ELSE pc' = "fetch_playlists" /\ outcome' = outcome
    /\ UNCHANGED <<call, dry_run, batch_size, is_trained, lastfm_data, musicbrainz_data,
                   audio, lexicon, playlists, i, batch, j,
                   results, batch_results, result, research, analysis, matched, k,
                   existing_tracks, additions, tlog, added>>

\* lines 63-69, 88-95: get_playlists, then _process_tracks_batch starts
FetchPlaylists ==
    /\ pc = "fetch_playlists"
    /\ \E reply \in StoreReplies :
        /\ Allowed(reply)
        /\ faults' = Counted(reply)
        /\ rlog' = Append(rlog, Event("get_playlists", 0, 0, reply = "ok"))
        /\ playlists' = IF reply = "ok" THEN lexicon.playlists ELSE <<>>
        /\ IF reply = "raise"
           THEN pc' = "done" /\ outcome' = ReturnError
           ELSE pc' = "batch_loop" /\ outcome' = outcome
    /\ results' = EmptyResults
    /\ i' = 0
    /\ UNCHANGED <<call, dry_run, batch_size, is_trained, lastfm_data, musicbrainz_data,
                   audio, lexicon, tracks, batch, j,
                   batch_results, result, research, analysis, matched, k,
                   existing_tracks, additions, tlog, added>>

(***************************************************************************)
(* _process_tracks_batch and _process_batch                                *)
(***************************************************************************)
\* tracks[i:i + self.batch_size] (line 99)
BatchSlice(all, from, size) ==
    SubSeq(all, from + 1, IF from + size < Len(all) THEN from + size ELSE Len(all))

\* a delay after every batch, the last one too
DelayAfterEveryBatch(all, from, size) == from + size <= Len(all)

\* whether a delay follows the batch at offset `from` (line 111)
DelayFollows(all, from, size) == from + size < Len(all)

\* lines 98-102, 119-126: the next batch is cut and _process_batch starts
StartBatch ==
    /\ pc = "batch_loop"
    /\ i < Len(tracks)
    /\ batch' = BatchSlice(tracks, i, batch_size)
    /\ batch_results' = EmptyResults
    /\ j' = 1
    /\ rlog' = Append(rlog, Event("batch", i, Len(batch'), TRUE))
    /\ pc' = "track_loop"
    /\ UNCHANGED <<call, dry_run, batch_size, is_trained, lastfm_data, musicbrainz_data,
                   audio, lexicon, tracks, playlists, i,
                   results, result, research, analysis, matched, k,
                   existing_tracks, additions, outcome, tlog, added, faults>>

\* lines 104-108: the counters and details of the batch are added to the run's
Aggregate(res, b) ==
    [processed |-> res.processed + b.processed,
     updated |-> res.updated + b.updated,
     playlist_additions |-> res.playlist_additions + b.playlist_additions,
     errors |-> res.errors + b.errors,
     skipped |-> res.skipped + b.skipped,
     details |-> res.details \o b.details]

\* lines 104-111: _process_batch returned
EndBatch ==
    /\ pc = "track_loop"
    /\ j > Len(batch)
    /\ results' = Aggregate(results, batch_results)
    /\ IF DelayFollows(tracks, i, batch_size)
       THEN pc' = "sleep" /\ i' = i
       ELSE pc' = "batch_loop" /\ i' = i + batch_size
    /\ UNCHANGED <<call, dry_run, batch_size, is_trained, lastfm_data, musicbrainz_data,
                   audio, lexicon, tracks, playlists,
                   batch, j, batch_results, result, research, analysis, matched, k,
                   existing_tracks, additions, outcome, tlog, rlog, added, faults>>

\* line 112: time.sleep(self.retry_delay)
Sleep ==
    /\ pc = "sleep"
    /\ rlog' = Append(rlog, Event("sleep", i, 0, TRUE))
    /\ i' = i + batch_size
    /\ pc' = "batch_loop"
    /\ UNCHANGED <<call, dry_run, batch_size, is_trained, lastfm_data, musicbrainz_data,
                   audio, lexicon, tracks, playlists,
                   batch, j, results, batch_results, result, research, analysis,
                   matched, k, existing_tracks, additions, outcome, tlog, added,
                   faults>>

\* lines 71-79: the loop is over, the summary is made and returned
Summarize ==
    /\ pc = "batch_loop"
    /\ i >= Len(tracks)
    /\ outcome' = [NotReturned EXCEPT !.returned = TRUE, !.success = TRUE,
                                      !.has_summary = TRUE,
                                      !.summary = generate_summary(results)]
    /\ pc' = "done"
    /\ UNCHANGED <<call, dry_run, batch_size, is_trained, lastfm_data, musicbrainz_data,
                   audio, lexicon, tracks, playlists, i,
                   batch, j, results, batch_results, result, research, analysis,
                   matched, k, existing_tracks, additions, tlog, rlog, added, faults>>

(***************************************************************************)
(* _process_single_track                                                   *)
(***************************************************************************)
\* lines 128-130, 160-178: the next track of the batch; the skip check
StartTrack ==
    /\ pc = "track_loop"
    /\ j <= Len(batch)
    /\ tlog' = <<>>
    /\ lastfm_data' = NoLastfm
    /\ musicbrainz_data' = NoMusicbrainz
    /\ research' = NoResearch
    /\ audio' = NoAudio
    /\ analysis' = NoAnalysis
    /\ matched' = <<>>
    /\ k' = 1
    /\ existing_tracks' = {}
    /\ additions' = 0
    /\ IF SkipsHighConfidence(track)
       THEN /\ result' = [NewResult(track) EXCEPT !.skipped = TRUE, !.success = TRUE]
            /\ pc' = "return"
       ELSE /\ result' = NewResult(track)
            /\ pc' = "research"
    /\ UNCHANGED <<call, dry_run, batch_size, is_trained, lexicon, tracks, playlists, i,
                   batch, j, results, batch_results, outcome, rlog, added, faults>>

\* lines 180-182: research_track asks both providers
Research ==
    /\ pc = "research"
    /\ \E lf \in LastfmAnswers(track) \cup LastfmFailures,
          mb \in MusicbrainzAnswers(track) \cup MusicbrainzFailures :
        LET bad == (IF lf \in LastfmAnswers(track) THEN 0 ELSE 1)
                   + (IF mb \in MusicbrainzAnswers(track) THEN 0 ELSE 1)
        IN
        /\ faults + bad <= MaxFaults
        /\ faults' = faults + bad
        /\ lastfm_data' = lf
        /\ musicbrainz_data' = mb
        /\ tlog' = tlog \o <<Call("lookup_lastfm", 0, IF lf.present THEN "found" ELSE "none", FALSE),
                             Call("lookup_musicbrainz", 0, IF mb.present THEN "found" ELSE "none",
                                  FALSE)>>
        /\ IF ResearchRaises(track, lf, mb)
           THEN /\ result' = Caught(result)
                /\ research' = research
                /\ pc' = "return"
           ELSE /\ \E order \in Orderings(CombineGenres(lf, mb)) :
                       research' = ResearchResult(track, lf, mb, order)
                /\ result' = result
                /\ pc' = "analyze"
    /\ UNCHANGED <<call, dry_run, batch_size, is_trained, audio, lexicon, tracks, playlists, i,
                   batch, j, results, batch_results, analysis, matched, k,
                   existing_tracks, additions, outcome, rlog, added>>

\* What the audio side may give for a track. Without a trained classifier the
\* extracted features only fill audio_features, which nothing reads.
AudioOutcomes(t) ==
    IF is_trained /\ Truthy(t.file_path)
    THEN {NoAudio,
          Audio(TRUE, FALSE, "", Zero),
          Audio(TRUE, TRUE, NONE, Frac(9, 10)),
          Audio(TRUE, TRUE, "techno", Frac(9, 10)),
          Audio(TRUE, TRUE, "techno", Frac(7, 10)),
          Audio(TRUE, TRUE, "house", Frac(6, 10)),
          Audio(TRUE, TRUE, "rock", Frac(9, 10))}
    ELSE {NoAudio}

\* lines 184-194: analyze_track, then the confidence check
Analyze ==
    /\ pc = "analyze"
    /\ \E a \in AudioOutcomes(track) :
        /\ audio' = a
        /\ IF AnalyzeRaises(is_trained, a, research)
           THEN /\ result' = Caught(result)
                /\ analysis' = analysis
                /\ pc' = "return"
           ELSE /\ analysis' = AnalyzeTrack(is_trained, a, research)
                /\ IF FracLt(analysis'.confidence, confidence_threshold)
                   THEN /\ result' = [result EXCEPT !.analysis = analysis',
                                                    !.skipped = TRUE, !.success = TRUE]
                        /\ pc' = "return"
                   ELSE /\ result' = [result EXCEPT !.analysis = analysis']
                        /\ pc' = "update"
    /\ UNCHANGED <<call, dry_run, batch_size, is_trained, lastfm_data, musicbrainz_data,
                   lexicon, tracks, playlists, i,
                   batch, j, results, batch_results, research, matched, k,
                   existing_tracks, additions, outcome, tlog, rlog, added, faults>>

\* the condition of line 197 without its dry_run test
WritesGenreInDryRun(dry, an, t) == an.predicted_genre # t.current_genre

\* the condition of line 197
WritesGenre(dry, an, t) == ~dry /\ an.predicted_genre # t.current_genre

\* the store after PUT tracks/{id} {'genre': genre}
WithGenre(lex, id, genre) ==
    [lex EXCEPT !.tracks =
        [x \in 1..Len(lex.tracks) |->
            IF lex.tracks[x].id = id
            THEN [lex.tracks[x] EXCEPT !.current_genre = genre]
            ELSE lex.tracks[x]]]

\* lines 196-206: the genre is written back when it differs
UpdateGenre ==
    /\ pc = "update"
    /\ IF WritesGenre(dry_run, analysis, track)
       THEN \E reply \in StoreReplies :
              /\ Allowed(reply)
              /\ faults' = Counted(reply)
              /\ tlog' = Append(tlog, Call("update_track_genre", 0, reply, FALSE))
              /\ lexicon' = IF reply = "ok"
                            THEN WithGenre(lexicon, track.id, analysis.predicted_genre)
                            ELSE lexicon
              /\ CASE reply = "ok" ->
                        result' = [result EXCEPT !.updated = TRUE] /\ pc' = "match"
                   [] reply = "fail" ->
                        result' = FailedUpdate(result) /\ pc' = "return"
                   [] OTHER ->
                        result' = Caught(result) /\ pc' = "return"
       ELSE /\ pc' = "match"
            /\ UNCHANGED <<faults, tlog, lexicon, result>>
    /\ UNCHANGED <<call, dry_run, batch_size, is_trained, lastfm_data, musicbrainz_data,
                   audio, tracks, playlists, i, batch, j,
                   results, batch_results, research, analysis, matched, k,
                   existing_tracks, additions, outcome, rlog, added>>

\* lines 208-214: match_track_to_playlists, list(set(...)) in some order
Match ==
    /\ pc = "match"
    /\ IF MatchRaises(playlists)
       THEN /\ result' = Caught(result)
            /\ matched' = matched
            /\ pc' = "return"
       ELSE /\ \E order \in Orderings(match_track_to_playlists(analysis, playlists)) :
                   matched' = order
            /\ result' = result
            /\ pc' = "playlists"
    /\ k' = 1
    /\ additions' = 0
    /\ UNCHANGED <<call, dry_run, batch_size, is_trained, lastfm_data, musicbrainz_data,
                   audio, lexicon, tracks, playlists, i,
                   batch, j, results, batch_results, research, analysis,
                   existing_tracks, outcome, tlog, rlog, added, faults>>

\* whether the loop of line 216 has a playlist left
AddsLeft(dry, m, pos) == ~dry /\ pos <= Len(m)

\* get_playlist_tracks (lines 116-123): the ids read, [] when the request failed
get_playlist_tracks(lex, playlist_id, reply) ==
    IF reply = "ok" THEN lex.members[playlist_id] ELSE {}

\* lines 216-218: the membership of the next matched playlist is read
CheckMembership ==
    /\ pc = "playlists"
    /\ AddsLeft(dry_run, matched, k)
    /\ \E reply \in StoreReplies :
        /\ Allowed(reply)
        /\ faults' = Counted(reply)
        /\ existing_tracks' = get_playlist_tracks(lexicon, matched[k], reply)
        /\ tlog' = Append(tlog, Call("get_playlist_tracks", matched[k], reply,
                                     track.id \in lexicon.members[matched[k]]))
        /\ IF reply = "raise"
           THEN result' = Caught(result) /\ pc' = "return"
           ELSE result' = result /\ pc' = "add"
    /\ UNCHANGED <<call, dry_run, batch_size, is_trained, lastfm_data, musicbrainz_data,
                   audio, lexicon, tracks, playlists, i,
                   batch, j, results, batch_results, research, analysis, matched, k,
                   additions, outcome, rlog, added>>

\* the condition of line 219
AddsTrack(id, existing) == id \notin existing

\* the store after POST playlists/{id}/tracks {'trackId': track_id}
WithMember(lex, playlist_id, id) ==
    [lex EXCEPT !.members[playlist_id] = @ \cup {id}]

\* lines 219-224: the track is added unless the read listed it
AddToPlaylist ==
    /\ pc = "add"
    /\ IF AddsTrack(track.id, existing_tracks)
       THEN \E reply \in StoreReplies :
              /\ Allowed(reply)
              /\ faults' = Counted(reply)
              /\ tlog' = Append(tlog, Call("add_track_to_playlist", matched[k], reply,
                                           track.id \in lexicon.members[matched[k]]))
              /\ lexicon' = IF reply = "ok"
                            THEN WithMember(lexicon, matched[k], track.id)
                            ELSE lexicon
              /\ added' = IF reply = "ok" THEN added \cup {<<matched[k], track.id>>}
                          ELSE added
              /\ additions' = IF reply = "ok" THEN additions + 1 ELSE additions
              /\ IF reply = "raise"
                 THEN result' = Caught(result) /\ pc' = "return"
                 ELSE result' = result /\ pc' = "playlists"
       ELSE /\ pc' = "playlists"
            /\ UNCHANGED <<faults, tlog, lexicon, added, additions, result>>
    /\ k' = k + 1
    /\ UNCHANGED <<call, dry_run, batch_size, is_trained, lastfm_data, musicbrainz_data,
                   audio, tracks, playlists, i, batch, j,
                   results, batch_results, research, analysis, matched,
                   existing_tracks, outcome, rlog>>

\* lines 226-228 and 237: the result of a track that went through
FinishTrack ==
    /\ pc = "playlists"
    /\ ~AddsLeft(dry_run, matched, k)
    /\ result' = [result EXCEPT !.playlist_additions = additions,
                                !.matched_playlists = matched,
                                !.success = TRUE]
    /\ pc' = "return"
    /\ UNCHANGED <<call, dry_run, batch_size, is_trained, lastfm_data, musicbrainz_data,
                   audio, lexicon, tracks, playlists, i,
                   batch, j, results, batch_results, research, analysis, matched, k,
                   existing_tracks, additions, outcome, tlog, rlog, added, faults>>

\* a failed track that stops at the counter and leaves no detail entry
CountedWithoutDetail(b, r) ==
    [processed |-> b.processed + 1,
     updated |-> b.updated + (IF r.success /\ r.updated THEN 1 ELSE 0),
     playlist_additions |->
         b.playlist_additions + (IF r.success THEN r.playlist_additions ELSE 0),
     errors |-> b.errors + (IF r.success THEN 0 ELSE 1),
     skipped |-> b.skipped + (IF r.success /\ r.skipped THEN 1 ELSE 0),
     details |-> IF r.success THEN Append(b.details, r) ELSE b.details]

\* lines 131-143: _process_batch counts the result and appends it
Counted_result(b, r) ==
    [processed |-> b.processed + 1,
     updated |-> b.updated + (IF r.success /\ r.updated THEN 1 ELSE 0),
     playlist_additions |->
         b.playlist_additions + (IF r.success THEN r.playlist_additions ELSE 0),
     errors |-> b.errors + (IF r.success THEN 0 ELSE 1),
     skipped |-> b.skipped + (IF r.success /\ r.skipped THEN 1 ELSE 0),
     details |-> Append(b.details, r)]

\* lines 130-143: _process_single_track returned
Record ==
    /\ pc = "return"
    /\ batch_results' = Counted_result(batch_results, result)
    /\ j' = j + 1
    /\ pc' = "track_loop"
    /\ UNCHANGED <<call, dry_run, batch_size, is_trained, lastfm_data, musicbrainz_data,
                   audio, lexicon, tracks, playlists, i,
                   batch, results, result, research, analysis, matched, k,
                   existing_tracks, additions, outcome, tlog, rlog, added, faults>>

Next ==
    \/ Connect
    \/ FetchTracks
    \/ FetchPlaylists
    \/ StartBatch
    \/ StartTrack
    \/ Research
    \/ Analyze
    \/ UpdateGenre
    \/ Match
    \/ CheckMembership
    \/ AddToPlaylist
    \/ FinishTrack
    \/ Record
    \/ EndBatch
    \/ Sleep
    \/ Summarize

\* organize_music_collection(dry_run) on a library of the store
Spec == Init /\ [][Next]_vars

(***************************************************************************)
(* organize_music_collection(dry_run=False) called a second time on the    *)
(* store the first run left, the providers answering as before and the     *)
(* store accepting every write.                                            *)
(***************************************************************************)
InitRerun == Init /\ ~dry_run

\* the second call of organize_music_collection: the service keeps only its
\* configuration, the store keeps what the first run wrote; `call` holds the
\* store as the second run finds it
Rerun ==
    /\ pc = "done"
    /\ call = NoCall
    /\ outcome.has_summary
    /\ call' = [op |-> "rerun", args |-> <<lexicon>>, ret |-> NONE]
    /\ pc' = "connect"
    /\ tracks' = <<>>
    /\ playlists' = <<>>
    /\ i' = 0
    /\ batch' = <<>>
    /\ j' = 1
    /\ results' = EmptyResults
    /\ batch_results' = EmptyResults
    /\ result' = NoResult
    /\ lastfm_data' = NoLastfm
    /\ musicbrainz_data' = NoMusicbrainz
    /\ research' = NoResearch
    /\ audio' = NoAudio
    /\ analysis' = NoAnalysis
    /\ matched' = <<>>
    /\ k' = 1
    /\ existing_tracks' = {}
    /\ additions' = 0
    /\ tlog' = <<>>
    /\ outcome' = NotReturned
    /\ rlog' = <<>>
    /\ added' = {}
    /\ UNCHANGED <<dry_run, batch_size, is_trained, lexicon, faults>>

\* research_track with the providers answering as they do for the track
ResearchAnswered == Research /\ faults' = faults

\* the genre write, accepted by the store
UpdateGenreAccepted == UpdateGenre /\ faults' = faults

\* the add, accepted by the store
AddToPlaylistAccepted == AddToPlaylist /\ faults' = faults

NextRerun ==
    \/ Connect
    \/ FetchTracks
    \/ FetchPlaylists
    \/ StartBatch
    \/ StartTrack
    \/ ResearchAnswered
    \/ Analyze
    \/ UpdateGenreAccepted
    \/ Match
    \/ CheckMembership
    \/ AddToPlaylistAccepted
    \/ FinishTrack
    \/ Record
    \/ EndBatch
    \/ Sleep
    \/ Summarize
    \/ Rerun

\* two calls of organize_music_collection(dry_run=False), one after the other
SpecRerun == InitRerun /\ [][NextRerun]_vars

(***************************************************************************)
(* _process_single_track called on one track, with any service state.      *)
(***************************************************************************)
\* tracks a caller may pass, with and without a recorded confidence
SingleTracks ==
    {TrackInfo(1, "Test Song", "Test Artist", NONE, NoScore, NONE),
     TrackInfo(1, "Test Song", "Test Artist", "Techno", Score(9, 10), NONE),
     TrackInfo(1, "Test Song", "Test Artist", "Techno", Score(8, 10), NONE),
     TrackInfo(1, "Test Song", "Test Artist", NONE, Score(9, 10), NONE),
     TrackInfo(1, "Test Song", "Test Artist", "Progressive", Score(1, 2), "/music/a.mp3"),
     TrackInfo(1, "Other Song", "Test Artist", NONE, NoScore, NONE),
     TrackInfo(1, "Strobe (Extended Mix)", "Deadmau5", NONE, NoScore, NONE)}

\* playlist snapshots a caller may pass
SinglePlaylists ==
    {<<>>, LibraryPlaylists, <<LibraryPlaylists[1], NamelessPlaylist>>}

InitSingle ==
    /\ pc = "track_loop"
    /\ dry_run \in BOOLEAN
    /\ batch_size = 1
    /\ is_trained \in BOOLEAN
    /\ \E t \in SingleTracks, ps \in SinglePlaylists :
        /\ lexicon = Store(<<t>>, ps)
        /\ tracks = <<t>>
        /\ playlists = ps
        /\ batch = <<t>>
    /\ i = 0
    /\ j = 1
    /\ results = EmptyResults
    /\ batch_results = EmptyResults
    /\ InitLocals
    /\ outcome = NotReturned
    /\ rlog = <<>>
    /\ added = {}
    /\ faults = 0

NextSingle ==
    \/ StartTrack
    \/ Research
    \/ Analyze
    \/ UpdateGenre
    \/ Match
    \/ CheckMembership
    \/ AddToPlaylist
    \/ FinishTrack

\* _process_single_track(track, playlists, dry_run)
SpecSingle == InitSingle /\ [][NextSingle]_vars

(***************************************************************************)
(* _detect_remix called again and again on one track, the caller adding   *)
(* text or provider data between the calls.                                *)
(***************************************************************************)
\* how many times the caller changes the inputs
MaxEdits == 2

\* the track of test_detect_remix, with and without the keyword in its title
RemixTracks ==
    {TrackInfo(1, "Song", "Artist", NONE, NoScore, NONE),
     TrackInfo(1, "Song (Remix)", "Artist", NONE, NoScore, NONE)}

\* keywords of remix_keywords as they may be spelled in a text
InsertedKeywords == {"Remix", "vip"}

\* a text with a keyword put before or behind it
Insert(kw, text, front) ==
    IF front THEN kw \o " " \o text ELSE text \o " " \o kw

InitRemix ==
    /\ pc = "detect"
    /\ dry_run = FALSE
    /\ batch_size = 1
    /\ is_trained = FALSE
    /\ \E t \in RemixTracks :
        /\ lexicon = Store(<<t>>, <<>>)
        /\ tracks = <<t>>
        /\ batch = <<t>>
    /\ playlists = <<>>
    /\ i = 0
    /\ j = 1
    /\ results = EmptyResults
    /\ batch_results = EmptyResults
    /\ InitLocals
    /\ outcome = NotReturned
    /\ rlog = <<>>
    /\ added = {}
    /\ faults = 0

\* line 43: result.is_remix = self._detect_remix(track, lastfm_data, musicbrainz_data)
DetectRemixCall ==
    /\ pc = "detect"
    /\ LET r == DetectRemix(track, lastfm_data, musicbrainz_data)
       IN  /\ tlog' = Append(tlog, Call("detect_remix", 0, r, FALSE))
           /\ research' = [research EXCEPT !.is_remix = (r = "true")]
    /\ pc' = "edit"
    /\ UNCHANGED <<call, dry_run, batch_size, is_trained, lastfm_data, musicbrainz_data,
                   audio, lexicon, tracks, playlists, i, batch, j, results,
                   batch_results, result, analysis, matched, k, existing_tracks,
                   additions, outcome, rlog, added, faults>>

\* the next call gets a remix keyword more in one of the texts that
\* _detect_remix scans (lines 170, 176, 183, 184, 192, 193)
InsertKeyword ==
    /\ pc = "edit"
    /\ Len(tlog) <= MaxEdits
    /\ \E kw \in InsertedKeywords, front \in BOOLEAN :
        \/ /\ batch' = <<[track EXCEPT !.title = Insert(kw, @, front)]>>
           /\ UNCHANGED <<lastfm_data, musicbrainz_data>>
        \/ /\ batch' = <<[track EXCEPT !.artist = Insert(kw, @, front)]>>
           /\ UNCHANGED <<lastfm_data, musicbrainz_data>>
        \/ /\ lastfm_data.present /\ lastfm_data.name # NONE
           /\ lastfm_data' = [lastfm_data EXCEPT !.name = Insert(kw, @, front)]
           /\ UNCHANGED <<batch, musicbrainz_data>>
        \/ /\ lastfm_data.present /\ lastfm_data.artist.isdict
           /\ lastfm_data' = [lastfm_data EXCEPT !.artist.name = Insert(kw, @, front)]
           /\ UNCHANGED <<batch, musicbrainz_data>>
        \/ /\ musicbrainz_data.present
           /\ musicbrainz_data' = [musicbrainz_data EXCEPT !.title = Insert(kw, @, front)]
           /\ UNCHANGED <<batch, lastfm_data>>
        \/ /\ musicbrainz_data.present
           /\ musicbrainz_data' =
                  [musicbrainz_data EXCEPT !.artist_credit = Insert(kw, @, front)]
           /\ UNCHANGED <<batch, lastfm_data>>
    /\ tracks' = batch'
    /\ pc' = "detect"
    /\ UNCHANGED <<call, dry_run, batch_size, is_trained, audio, lexicon, playlists, i, j,
                   results, batch_results, result, research, analysis, matched, k,
                   existing_tracks, additions, outcome, tlog, rlog, added, faults>>

\* the next call gets a payload from a provider that had none (lines 182, 191)
AddProviderData ==
    /\ pc = "edit"
    /\ Len(tlog) <= MaxEdits
    /\ \/ /\ ~lastfm_data.present
          /\ lastfm_data' \in {LastfmTechno} \cup LastfmMalformed
          /\ UNCHANGED musicbrainz_data
       \/ /\ ~musicbrainz_data.present
          /\ musicbrainz_data' \in {MusicbrainzProgressive, MusicbrainzRemix}
          /\ UNCHANGED lastfm_data
    /\ pc' = "detect"
    /\ UNCHANGED <<call, dry_run, batch_size, is_trained, audio, lexicon, tracks, playlists,
                   i, batch, j, results, batch_results, result, research, analysis,
                   matched, k, existing_tracks, additions, outcome, tlog, rlog,
                   added, faults>>

NextRemix ==
    \/ DetectRemixCall
    \/ InsertKeyword
    \/ AddProviderData

\* _detect_remix(track, lastfm_data, musicbrainz_data), called with growing inputs
SpecRemix == InitRemix /\ [][NextRemix]_vars

(***************************************************************************)
(* MusicResearchService: the search helpers.                               *)
(***************************************************************************)
Digits == "0123456789"
IsDigit(c) == \E n \in 1..Len(Digits) : SubSeq(Digits, n, n) = c

EndsWith(s, suffix) ==
    Len(suffix) <= Len(s) /\ SubSeq(s, Len(s) - Len(suffix) + 1, Len(s)) = suffix

\* the alternatives of \.(mp3|wav|flac|aac|m4a)$
Extensions == <<".mp3", ".wav", ".flac", ".aac", ".m4a">>

\* line 294: re.sub(r'\.(mp3|wav|flac|aac|m4a)$', '', clean_title)
RemoveExtension(s) ==
    IF \E n \in 1..Len(Extensions) : EndsWith(s, Extensions[n])
    THEN LET n == CHOOSE n \in 1..Len(Extensions) : EndsWith(s, Extensions[n])
         IN  SubSeq(s, 1, Len(s) - Len(Extensions[n]))
    ELSE s

RECURSIVE LStripDigits(_)
\* what is left of s behind its leading digits
LStripDigits(s) ==
    IF Len(s) > 0 /\ IsDigit(SubSeq(s, 1, 1)) THEN LStripDigits(SubSeq(s, 2, Len(s))) ELSE s

\* what is left of s behind one leading '-' or '.', if there is one
SkipSeparator(s) ==
    IF Len(s) > 0 /\ SubSeq(s, 1, 1) \in {"-", "."} THEN SubSeq(s, 2, Len(s)) ELSE s

\* line 297: re.sub(r'^\d+\s*[-.]?\s*', '', clean_title)
RemoveLeadingNumber(s) ==
    IF Len(s) > 0 /\ IsDigit(SubSeq(s, 1, 1))
    THEN LStrip(SkipSeparator(LStrip(LStripDigits(s))))
    ELSE s

\* whether \s*[-.]?\s*\d+\s*$ matches s from position p to its end
TrailingNumberAt(s, p) ==
    LET number == LStrip(SkipSeparator(LStrip(SubSeq(s, p, Len(s)))))
        rest == LStripDigits(number)
    IN  Len(rest) < Len(number) /\ LStrip(rest) = ""

\* line 298: re.sub(r'\s*[-.]?\s*\d+\s*$', '', clean_title), the leftmost match
RemoveTrailingNumber(s) ==
    IF \E p \in 1..Len(s) : TrailingNumberAt(s, p)
    THEN LET first == CHOOSE p \in 1..Len(s) :
                          /\ TrailingNumberAt(s, p)
                          /\ \A q \in 1..(p - 1) : ~TrailingNumberAt(s, q)
         IN  SubSeq(s, 1, first - 1)
    ELSE s

\* _clean_title_for_search
clean_title_for_search(title) ==
    Strip(RemoveTrailingNumber(RemoveLeadingNumber(RemoveExtension(Lower(title)))))

\* the position of the first blank of s, or Len(s) + 1
FirstBlank(s) ==
    IF \E n \in 1..Len(s) : IsSpace(SubSeq(s, n, n))
    THEN CHOOSE n \in 1..Len(s) :
             /\ IsSpace(SubSeq(s, n, n))
             /\ \A m \in 1..(n - 1) : ~IsSpace(SubSeq(s, m, m))
    ELSE Len(s) + 1

RECURSIVE Words(_)
\* set(s.split())
Words(s) ==
    LET t == LStrip(s)
    IN  IF Len(t) = 0 THEN {}
        ELSE {SubSeq(t, 1, FirstBlank(t) - 1)} \cup Words(SubSeq(t, FirstBlank(t), Len(t)))

\* the common words over the words of the first string alone
SimilarityOverFirst(str1, str2) ==
    IF str1 = "" \/ str2 = "" THEN Zero
    ELSE IF Words(str1) = {} \/ Words(str2) = {} THEN Zero
    ELSE Frac(Cardinality(Words(str1) \cap Words(str2)), Cardinality(Words(str1)))

\* _calculate_similarity
calculate_similarity(str1, str2) ==
    IF str1 = "" \/ str2 = "" THEN Zero
    ELSE IF Words(str1) = {} \/ Words(str2) = {} THEN Zero
    ELSE Frac(Cardinality(Words(str1) \cap Words(str2)),
              Cardinality(Words(str1) \cup Words(str2)))

(***************************************************************************)
(* Methods of the services called on their own, outside a run.             *)
(***************************************************************************)
\* everything but `call`: a method called on its own leaves the run's state
run_vars ==
    <<pc, dry_run, batch_size, is_trained, lexicon, tracks, playlists, i, batch, j,
      results, batch_results, result, lastfm_data, musicbrainz_data, research,
      audio, analysis, matched, k,
      existing_tracks, additions, outcome, tlog, rlog, added, faults>>

\* the services after construction, no run started
InitCalls ==
    /\ pc = "idle"
    /\ dry_run = FALSE
    /\ batch_size = 1
    /\ is_trained = FALSE
    /\ lexicon = Store(<<>>, <<>>)
    /\ tracks = <<>>
    /\ batch = <<>>
    /\ playlists = <<>>
    /\ i = 0
    /\ j = 1
    /\ results = EmptyResults
    /\ batch_results = EmptyResults
    /\ InitLocals
    /\ outcome = NotReturned
    /\ rlog = <<>>
    /\ added = {}
    /\ faults = 0

\* line 60: self.genre_similarity_matrix.get(genre, [])
SimilarGenresCall ==
    /\ pc = "idle" /\ call = NoCall
    /\ \E g \in Genre :
        call' = [op |-> "similar_genres", args |-> <<g>>,
                 ret |-> genre_similarity_matrix(g)]
    /\ UNCHANGED run_vars

\* titles as files are named: track numbers, a name, a year or numbers, extensions
CleanedTitles ==
    {prefix \o name \o suffix \o ext :
        prefix \in {"", "01 - ", "1. ", "01 02 "},
        name \in {"Song", "song", ""},
        suffix \in {"", " 2023", " 1 2", " - 7 "},
        ext \in {"", ".mp3", ".mp3.mp3", ".wav"}}

\* lines 57, 145, 316: self._clean_title_for_search(title)
CleanTitleCall ==
    /\ pc = "idle" /\ call = NoCall
    /\ \E title \in CleanedTitles :
        call' = [op |-> "clean_title", args |-> <<title>>,
                 ret |-> clean_title_for_search(title)]
    /\ UNCHANGED run_vars

\* cleaned titles and artist names as they are compared
ComparedStrings ==
    {"", " ", "hello", "world", "hello world", "world hello", "hello there",
     "hello  hello", "song", "the artist"}

\* lines 328-329: self._calculate_similarity(clean_title, mb_title)
SimilarityCall ==
    /\ pc = "idle" /\ call = NoCall
    /\ \E str1 \in ComparedStrings, str2 \in ComparedStrings :
        call' = [op |-> "similarity", args |-> <<str1, str2>>,
                 ret |-> calculate_similarity(str1, str2)]
    /\ UNCHANGED run_vars

\* the caller has the result; the service is ready for the next call
ReturnCall ==
    /\ pc = "idle" /\ call # NoCall
    /\ call' = NoCall
    /\ UNCHANGED run_vars

\* playlists a snapshot may hold: named after a genre, tagged with one, with
\* and without a remix-style name
MatchedPlaylists ==
    {PlaylistInfo(1, "Progressive House", ""),
     PlaylistInfo(2, "Prog Remixes", "progressive"),
     PlaylistInfo(3, "Sunday", "Ambient "),
     PlaylistInfo(4, "Techno Edits", ""),
     PlaylistInfo(5, "Remixes", "deep house"),
     PlaylistInfo(6, "Club Mix", "")}

\* snapshots of up to two playlists
MatchedSnapshots ==
    {<<>>} \cup {<<p>> : p \in MatchedPlaylists}
           \cup {<<pq[1], pq[2]>> :
                     pq \in {x \in MatchedPlaylists \X MatchedPlaylists : x[1].id < x[2].id}}

\* lines 209-211: match_track_to_playlists(track, analysis, playlists)
MatchCall ==
    /\ pc = "idle" /\ call = NoCall
    /\ \E genre \in Genre, remix \in BOOLEAN, snapshot \in MatchedSnapshots :
        call' = [op |-> "match", args |-> <<genre, remix, snapshot>>,
                 ret |-> match_track_to_playlists(
                             [predicted_genre |-> genre, is_remix |-> remix], snapshot)]
    /\ UNCHANGED run_vars

NextCalls ==
    \/ ReturnCall
    \/ MatchCall
    \/ SimilarGenresCall
    \/ CleanTitleCall
    \/ SimilarityCall

\* the services' methods, each called with arguments of its own
SpecCalls == InitCalls /\ [][NextCalls]_vars

(***************************************************************************)
(* Properties of a run.                                                    *)
(***************************************************************************)
\* the run is inside _process_batch
InBatch ==
    pc \in {"track_loop", "research", "analyze", "update", "match", "playlists",
            "add", "return"}

\* every detail entry recorded so far, in the order recorded
AllDetails ==
    IF InBatch THEN results.details \o batch_results.details ELSE results.details

\* how many entries of a sequence of detail entries pass a test
CountOf(details, Test(_)) ==
    Cardinality({n \in DOMAIN details : Test(details[n])})

IsError(d) == ~d.success
IsSkipped(d) == d.success /\ d.skipped
IsUpdated(d) == d.success /\ d.updated

StoreWrites == {"update_track_genre", "add_track_to_playlist"}
StoreCalls == StoreWrites \cup {"get_playlist_tracks"}

\* the stores a run may start on
InitialStores ==
    Libraries \cup {Store(<<t>>, ps) : t \in SingleTracks, ps \in SinglePlaylists}

\* the store is as it was before the run
StoreUntouched == lexicon \in InitialStores /\ added = {}

HealthCheckFailed ==
    Len(rlog) >= 1 /\ rlog[1].op = "health_check" /\ ~rlog[1].ok

\* C1: when the health check of the Library store fails, the run returns a
\* failure result and nothing else is called: no track fetch, no playlist
\* fetch, no provider lookup, no genre write, no playlist read or add.
ConnectionFailureStopsRun ==
    HealthCheckFailed =>
        /\ pc = "done"
        /\ outcome.returned /\ outcome.error
        /\ ~outcome.success /\ ~outcome.has_summary
        /\ Len(rlog) = 1
        /\ tlog = <<>>
        /\ tracks = <<>> /\ playlists = <<>>
        /\ results = EmptyResults
        /\ StoreUntouched

ConnectionFailureSeen == HealthCheckFailed /\ pc = "done" /\ Len(lexicon.tracks) > 0

\* C2: in a dry run no genre is written and no track is added to a playlist,
\* the counts of updates and of playlist additions are 0, and every track
\* that got a fused result and was not skipped still has its playlists
\* matched against the snapshot.
DryRunWritesNothing ==
    dry_run =>
        /\ \A n \in DOMAIN tlog : tlog[n].op \notin StoreCalls
        /\ StoreUntouched
        /\ results.updated = 0 /\ results.playlist_additions = 0
        /\ batch_results.updated = 0 /\ batch_results.playlist_additions = 0
        /\ outcome.has_summary =>
              /\ outcome.summary.tracks_updated = 0
              /\ outcome.summary.playlist_additions = 0
        /\ \A n \in DOMAIN AllDetails :
              LET d == AllDetails[n]
              IN  /\ ~d.updated /\ d.playlist_additions = 0
                  /\ (d.success /\ ~d.skipped) => d.analysis.present
                  /\ (d.analysis.present /\ ~d.skipped) =>
                        /\ d.success
                        /\ ~FracLt(d.analysis.confidence, Frac(7, 10))
                        /\ Range(d.matched_playlists)
                              = match_track_to_playlists(d.analysis, playlists)

\* a dry run that ended on a track whose genre differs and which has playlists
DryRunSeen ==
    /\ dry_run /\ outcome.has_summary
    /\ \E n \in DOMAIN results.details :
          LET d == results.details[n]
          IN  /\ d.success /\ ~d.skipped
              /\ d.matched_playlists # <<>>
              /\ d.analysis.predicted_genre # tracks[n].current_genre

\* C3: a track whose processing raises gets one detail entry with
\* success = false naming that track and counts once in errors; the tracks
\* after it are processed; a run that ends with a summary has exactly one
\* detail entry for each fetched track, in order.
ErrorsAreIsolated ==
    /\ Len(AllDetails) <= Len(tracks)
    /\ \A n \in DOMAIN AllDetails :
          /\ AllDetails[n].track_id = tracks[n].id
          /\ AllDetails[n].error = "exception" => ~AllDetails[n].success
    /\ results.errors + (IF InBatch THEN batch_results.errors ELSE 0)
          = CountOf(AllDetails, IsError)
    /\ (pc = "return" /\ result.error = "exception") =>
          ~result.success /\ result.track_id = track.id
    /\ outcome.has_summary =>
          /\ Len(results.details) = Len(tracks)
          /\ outcome.summary.total_processed = Len(tracks)
          /\ outcome.summary.errors = CountOf(results.details, IsError)

\* the first track raised and the second was processed to the end
ErrorIsolationSeen ==
    /\ outcome.has_summary
    /\ Len(results.details) >= 2
    /\ results.details[1].error = "exception"
    /\ results.details[2].success /\ ~results.details[2].skipped

GenreWriteRejected ==
    \E n \in DOMAIN tlog : tlog[n].op = "update_track_genre" /\ tlog[n].ret = "fail"

\* C4: when the store rejects the genre write of a track (not a dry run, the
\* genre differs), the track is an error: success = false, counted in errors
\* and not as skipped or updated, and no playlist is read or added to for it.
RejectedGenreWriteIsAnError ==
    GenreWriteRejected =>
        /\ ~dry_run
        /\ pc \notin {"research", "analyze", "update", "match", "playlists", "add"}
        /\ ~result.success /\ ~result.skipped /\ ~result.updated
        /\ result.error = "Failed to update genre"
        /\ result.playlist_additions = 0
        /\ tlog[Len(tlog)].op = "update_track_genre"
        /\ \A n \in DOMAIN tlog :
              tlog[n].op \notin {"get_playlist_tracks", "add_track_to_playlist"}
        /\ (pc = "track_loop" /\ j > 1) =>
              /\ batch_results.details[Len(batch_results.details)] = result
              /\ batch_results.errors = CountOf(batch_results.details, IsError)
              /\ batch_results.skipped = CountOf(batch_results.details, IsSkipped)
              /\ batch_results.updated = CountOf(batch_results.details, IsUpdated)
              /\ batch_results.errors >= 1

\* a rejected genre write has been counted
RejectedGenreWriteSeen ==
    GenreWriteRejected /\ pc = "track_loop" /\ j > 1 /\ batch_results.errors = 1

AddRejected ==
    \E n \in DOMAIN tlog :
        tlog[n].op = "add_track_to_playlist" /\ tlog[n].ret = "fail"

\* C5: when the store rejects the add of a track to a playlist (not a dry
\* run), the track is recorded as an error: success = false, counted in
\* errors.
RejectedAddIsAnError ==
    /\ (pc = "return" /\ AddRejected) => ~result.success
    /\ (pc = "track_loop" /\ j > 1 /\ AddRejected) =>
          /\ ~batch_results.details[Len(batch_results.details)].success
          /\ batch_results.errors >= 1

\* the track in hand has a genre and a recorded confidence above 0.8
HasHighConfidenceGenre ==
    /\ Truthy(track.current_genre)
    /\ track.confidence_score.has
    /\ track.confidence_score.n * 10 > 8 * track.confidence_score.d

\* C6: a track that has a genre and a recorded confidence above 0.8 is
\* skipped before any work: no provider lookup, no fusion, no store call, and
\* it is recorded as skipped with success = true. A track at exactly 0.8, or
\* without a genre, is not skipped by this check: its lookups are made.
HighConfidenceTrackIsSkippedFirst ==
    /\ HasHighConfidenceGenre =>
          /\ pc \in {"track_loop", "return"}
          /\ tlog = <<>>
          /\ research = NoResearch /\ analysis = NoAnalysis
          /\ StoreUntouched
          /\ pc = "return" =>
                /\ result.skipped /\ result.success
                /\ ~result.updated /\ result.playlist_additions = 0
                /\ result.error = NONE /\ ~result.analysis.present
    /\ (~HasHighConfidenceGenre /\ pc # "track_loop") =>
          /\ pc = "research" => tlog = <<>>
          /\ pc # "research" =>
                /\ Len(tlog) >= 2
                /\ tlog[1].op = "lookup_lastfm"
                /\ tlog[2].op = "lookup_musicbrainz"

HighConfidenceSkipSeen ==
    HasHighConfidenceGenre /\ pc = "return" /\ result.skipped

\* neither provider had data for the track in hand
NoProviderData ==
    /\ Len(tlog) >= 2
    /\ tlog[1].ret = "none" /\ tlog[2].ret = "none"

\* C7: a track whose fused confidence is below 0.7 is recorded as skipped,
\* not as an error, and no store call is made for it; a track for which no
\* provider has data and which has no audio path gets (Unknown, 0.0) and is
\* skipped the same way.
LowConfidenceIsSkipped ==
    pc = "return" =>
        /\ (result.analysis.present
               /\ result.analysis.confidence.n * 10 < 7 * result.analysis.confidence.d) =>
              /\ result.skipped /\ result.success /\ result.error = NONE
              /\ ~result.updated /\ result.playlist_additions = 0
              /\ \A n \in DOMAIN tlog : tlog[n].op \notin StoreCalls
              /\ StoreUntouched
        /\ (NoProviderData /\ ~Truthy(track.file_path)) =>
              /\ result.analysis.present
              /\ result.analysis.predicted_genre = UNKNOWN
              /\ result.analysis.confidence.n = 0
              /\ result.skipped /\ result.success
              /\ \A n \in DOMAIN tlog : tlog[n].op \notin StoreCalls

\* a fused confidence between one half and 0.7 that was skipped
LowConfidenceSkipSeen ==
    /\ pc = "return" /\ result.analysis.present /\ result.skipped
    /\ result.analysis.confidence.n * 2 >= result.analysis.confidence.d
    /\ result.analysis.confidence.n * 10 < 7 * result.analysis.confidence.d
    /\ ~dry_run

\* C8: every add of a track to a playlist comes right after a read of that
\* playlist's members, and is made only when the track is not in the
\* playlist: no track is added to a playlist that holds it, whatever the
\* read gave, a failed read included.
AddsOnlyWhenAbsent ==
    \A n \in DOMAIN tlog :
        tlog[n].op = "add_track_to_playlist" =>
            /\ n > 1
            /\ tlog[n - 1].op = "get_playlist_tracks"
            /\ tlog[n - 1].playlist = tlog[n].playlist
            /\ ~tlog[n].member

\* C9: tracks are taken in fetch order, one batch after the other, and each
\* membership read of a playlist lists every track an earlier add put into it.
ReadsSeeEarlierAdds ==
    /\ (InBatch /\ j <= Len(batch)) => track = tracks[i + j]
    /\ Len(AllDetails) = (IF InBatch THEN i + j - 1 ELSE Len(results.details))
    /\ pc = "add" =>
          {t \in 1..Len(tracks) : <<matched[k], t>> \in added} \subseteq existing_tracks

Ceil(n, b) == (n + b - 1) \div b

\* the batches and delays of the run, in order
BatchEvents == SelectSeq(rlog, LAMBDA e : e.op \in {"batch", "sleep"})

\* C10: N > 0 tracks with batch size B > 0 are processed in exactly
\* ceil(N/B) batches, all of B tracks but possibly the last, each track in
\* exactly one batch, with ceil(N/B) - 1 delays, each between two batches.
BatchesAndDelays ==
    outcome.has_summary =>
        LET N == Len(tracks)
            B == batch_size
            ev == BatchEvents
            nb == Ceil(N, B)
        IN  /\ N > 0
            /\ Len(ev) = 2 * nb - 1
            /\ \A x \in 1..Len(ev) :
                  IF x % 2 = 1
                  THEN /\ ev[x].op = "batch"
                       /\ ev[x].first = ((x - 1) \div 2) * B
                       /\ ev[x].size = IF (x + 1) \div 2 < nb THEN B
                                       ELSE N - (nb - 1) * B
                       /\ ev[x].size >= 1 /\ ev[x].size <= B
                  ELSE ev[x].op = "sleep"
            /\ \A n \in 1..N :
                  Cardinality({x \in 1..Len(ev) :
                                  /\ ev[x].op = "batch"
                                  /\ ev[x].first < n
                                  /\ n <= ev[x].first + ev[x].size}) = 1
            /\ results.processed = N

\* three tracks in batches of two: a batch of 2, one delay, a batch of 1
BatchesAndDelaysSeen ==
    /\ outcome.has_summary
    /\ Len(tracks) = 3 /\ batch_size = 2
    /\ Len(BatchEvents) = 3
    /\ BatchEvents[1].size = 2 /\ BatchEvents[2].op = "sleep" /\ BatchEvents[3].size = 1

\* the health check and both fetches of the run were answered
StoreReachable ==
    /\ Len(rlog) >= 1
    /\ \A n \in DOMAIN rlog : rlog[n].ok

\* C11: whenever the Library store is reachable, the run completes with a
\* result that carries a summary (processed, updated, skipped, errors and a
\* success rate), whatever the library holds, an empty library included.
ReachableStoreGivesSummary ==
    (pc = "done" /\ StoreReachable) =>
        /\ outcome.returned /\ outcome.success
        /\ outcome.has_summary
        /\ outcome.summary.total_processed = Len(tracks)

InUnitInterval(c) == c.d > 0 /\ 0 <= c.n /\ c.n <= c.d

\* C12: the confidence of the GenreAnalysis that analyze_track returns lies
\* in [0,1], on the audio path and on the metadata path, with and without
\* the remix factor.
ConfidenceInUnitInterval ==
    /\ analysis.present => InUnitInterval(analysis.confidence)
    /\ result.analysis.present => InUnitInterval(result.analysis.confidence)
    /\ pc \in {"analyze", "update", "match", "playlists", "add"} =>
          InUnitInterval(research.confidence)

\* a metadata vote split between two tags was returned
SplitVoteSeen ==
    /\ analysis.present
    /\ analysis.analysis_method = "metadata_analysis"
    /\ Len(research.combined_genres) = 2
    /\ analysis.confidence.n * 2 <= analysis.confidence.d
    /\ analysis.confidence.n > 0

\* the positions of the pooled tags that the canonical table maps
MappedTags(genres) ==
    {n \in 1..Len(genres) : genres[n] # NONE /\ Lower(genres[n]) \in genre_mapping_keys}

OnMetadataPath == analysis.present /\ analysis.analysis_method = "metadata_analysis"

\* the factor the remix adjustment applies to a resolved genre
RemixFactor(an) ==
    IF an.is_remix /\ an.predicted_genre # UNKNOWN THEN Frac(8, 10) ELSE One

\* C13: in the metadata vote unmapped tags do not vote: when the pooled tags
\* hold at least one mapped tag, the predicted genre is not UNKNOWN but the
\* genre of a mapped tag, and the confidence is that tag's count over the
\* number of mapped tags (times the remix factor).
UnmappedTagsDoNotVote ==
    LET genres == research.combined_genres
        mapped == MappedTags(genres)
    IN  (OnMetadataPath /\ mapped # {}) =>
            /\ analysis.predicted_genre # UNKNOWN
            /\ \E w \in mapped :
                  /\ analysis.predicted_genre = genre_mapping(Lower(genres[w]))
                  /\ FracEq(analysis.confidence,
                            FracMul(Frac(GenreCount(genres, Lower(genres[w])),
                                         Cardinality(mapped)),
                                    RemixFactor(analysis)))

\* C14: on the metadata path, pooled tags of which none is mapped give
\* exactly (UNKNOWN, 0.0).
UnmappedPoolGivesUnknownZero ==
    LET genres == research.combined_genres
    IN  (OnMetadataPath /\ Len(genres) > 0 /\ MappedTags(genres) = {}) =>
            /\ analysis.predicted_genre = UNKNOWN
            /\ analysis.confidence.n = 0

\* the confidence of the path taken, before any remix adjustment
UnpenalizedConfidence ==
    IF analysis.analysis_method = "audio_analysis"
    THEN PredictFromAudio(is_trained, audio).confidence
    ELSE MetadataVote(research).confidence

\* C15: whenever is_remix is true and the genre is resolved, the reported
\* confidence is 0.8 times the unpenalized confidence, on the audio path as
\* on the metadata path; otherwise it is the unpenalized confidence.
RemixPenaltyOnBothPaths ==
    analysis.present =>
        FracEq(analysis.confidence,
               FracMul(UnpenalizedConfidence, RemixFactor(analysis)))

\* an audio file exists, features were extracted, the classifier is trained,
\* its label is a key of the canonical table and its confidence is >= 0.7
AudioAccepted ==
    /\ audio.exists /\ audio.features /\ is_trained
    /\ audio.label # NONE
    /\ Lower(audio.label) \in genre_mapping_keys
    /\ 7 * audio.prob.d <= 10 * audio.prob.n

\* C16: analyze_track returns the classifier's (genre, confidence) with
\* analysis_method "audio_analysis" only when the audio result is accepted;
\* in every other case the genre and confidence are those of the metadata
\* vote. (The analysis is looked at where analyze_track has just returned.)
AudioOnlyWhenAccepted ==
    (analysis.present /\ pc \in {"update", "return"}) =>
        /\ analysis.analysis_method \in {"audio_analysis", "metadata_analysis"}
        /\ analysis.analysis_method = "audio_analysis" =>
              /\ AudioAccepted
              /\ analysis.predicted_genre = genre_mapping(Lower(audio.label))
              /\ analysis.predicted_genre # UNKNOWN
              /\ analysis.confidence = audio.prob
        /\ ~AudioAccepted =>
              LET vote == PredictFromMetadata(research)
              IN  /\ analysis.analysis_method = "metadata_analysis"
                  /\ analysis.predicted_genre = vote.genre
                  /\ analysis.confidence = vote.confidence

\* a resolved audio result below 0.7 gave way to a metadata vote of
\* (UNKNOWN, 0.0)
AudioRejectedSeen ==
    /\ analysis.present /\ pc = "return"
    /\ audio.features /\ audio.label = "house"
    /\ analysis.analysis_method = "metadata_analysis"
    /\ analysis.predicted_genre = UNKNOWN /\ analysis.confidence.n = 0

\* the track in hand is "Strobe (Extended Mix)" by Deadmau5, without genre or
\* audio file, and both providers returned the single tag "progressive house"
StrobeScenario ==
    /\ InBatch /\ j <= Len(batch) /\ pc # "track_loop"
    /\ track.title = "Strobe (Extended Mix)" /\ track.artist = "Deadmau5"
    /\ track.current_genre = NONE /\ track.file_path = NONE
    /\ lastfm_data.present /\ musicbrainz_data.present
    /\ CombineGenres(lastfm_data, musicbrainz_data) = {"progressive house"}
    /\ analysis.present

\* the playlists of the snapshot named "Progressive House" or tagged
\* progressive (the remix-named ones tagged progressive are among them)
ProgressivePlaylists ==
    {playlists[n].id : n \in {n \in 1..Len(playlists) :
        \/ playlists[n].name = "Progressive House"
        \/ Strip(Lower(playlists[n].genre)) = "progressive"}}

\* the playlists have been matched for the track in hand
MatchDone ==
    \/ pc \in {"playlists", "add"}
    \/ pc = "return" /\ result.success /\ ~result.skipped

\* C17 as stated: the scenario yields is_remix, Progressive, confidence
\* 0.8 * 0.8 = 0.64, and the track is matched into the progressive playlists.
StrobeGivesSixtyFourHundredths ==
    StrobeScenario =>
        /\ analysis.is_remix
        /\ analysis.predicted_genre = "Progressive"
        /\ analysis.confidence.n * 100 = 64 * analysis.confidence.d
        /\ MatchDone => ProgressivePlaylists \subseteq Range(matched)

\* C17 as amended: the scenario yields is_remix, Progressive, confidence
\* 1.0 * 0.8 = 0.8, which passes the threshold, and the track is matched into
\* the progressive playlists.
StrobeGivesEightTenths ==
    StrobeScenario =>
        /\ analysis.is_remix
        /\ analysis.predicted_genre = "Progressive"
        /\ analysis.analysis_method = "metadata_analysis"
        /\ analysis.confidence.n * 10 = 8 * analysis.confidence.d
        /\ ~result.skipped
        /\ MatchDone => ProgressivePlaylists \subseteq Range(matched)

\* the scenario ran to its end and matched a playlist by name and one by tag
StrobeSeen ==
    /\ StrobeScenario /\ pc = "return" /\ result.success
    /\ Cardinality(ProgressivePlaylists) = 2
    /\ Range(result.matched_playlists) = ProgressivePlaylists

\* research_track was called for the track in hand and is over
ResearchCalled ==
    /\ pc # "research" /\ Len(tlog) >= 2
    /\ tlog[1].op = "lookup_lastfm" /\ tlog[2].op = "lookup_musicbrainz"

\* C18: research_track never raises, whatever the shape of a provider's
\* payload: it returns a result holding what the payloads give, a provider
\* that failed counting as absent data.
ResearchNeverRaises ==
    ResearchCalled =>
        /\ research.lastfm_found = lastfm_data.present
        /\ research.musicbrainz_found = musicbrainz_data.present
        /\ Range(research.combined_genres) = CombineGenres(lastfm_data, musicbrainz_data)
        /\ ~(pc = "return" /\ result.error = "exception" /\ ~analysis.present
             /\ ResearchRaises(track, lastfm_data, musicbrainz_data))

\* the direct pass as specified: the playlist's normalized genre equals the
\* genre's normalized name, or that name is a substring of the playlist's name
DirectPass(g, p) ==
    \/ normalize_genre_name(p.genre) = normalize_genre_name(g)
    \/ Contains(normalize_genre_name(g), Lower(p.name))

\* the similar pass as specified: the same two checks for an adjacent genre
SimilarPass(g, p) ==
    \E s \in Range(genre_similarity_matrix(g)) : DirectPass(s, p)

\* the remix pass as specified: a remix-style name, and the genre matches
RemixPass(g, p) ==
    /\ \E kw \in {"remix", "edit", "version", "mix", "rework"} :
           Contains(kw, Lower(p.name))
    /\ DirectPass(g, p)

\* the ids the three passes give for an analysis and a playlist snapshot
SpecifiedMatches(an, ps) ==
    {ps[n].id : n \in {n \in 1..Len(ps) :
        \/ DirectPass(an.predicted_genre, ps[n])
        \/ SimilarPass(an.predicted_genre, ps[n])
        \/ an.is_remix /\ RemixPass(an.predicted_genre, ps[n])}}

\* one call of match_track_to_playlists from the track's processing
MatchStep == pc = "match" /\ pc' # "match"

\* C19: a call of match_track_to_playlists returns the union of the three
\* passes as a function of the predicted genre, the is_remix flag and the
\* playlist snapshot alone, each id once, makes no store call and changes
\* neither the store nor its inputs.
MatchIsPureUnionOfPasses ==
    [][MatchStep =>
        /\ pc' = "playlists" =>
              /\ Range(matched') = SpecifiedMatches(analysis, playlists)
              /\ Len(matched') = Cardinality(Range(matched'))
        /\ lexicon' = lexicon /\ added' = added /\ tlog' = tlog
        /\ playlists' = playlists /\ analysis' = analysis /\ tracks' = tracks
        /\ research' = research]_vars

\* the matcher returned a playlist that the similar pass alone finds
SimilarPassSeen ==
    /\ pc = "playlists" /\ k = 1 /\ Len(matched) >= 1
    /\ \E n \in 1..Len(playlists) :
        /\ playlists[n].id \in Range(matched)
        /\ SimilarPass(analysis.predicted_genre, playlists[n])
        /\ ~DirectPass(analysis.predicted_genre, playlists[n])

\* C20: remix detection is monotonic: once _detect_remix gave true for a
\* track, it gives true again after a remix keyword was inserted into a text
\* it scans or provider data was added.
RemixDetectionIsMonotonic ==
    pc \in {"detect", "edit"} =>
        \A n \in 1..(Len(tlog) - 1) :
            (tlog[n].op = "detect_remix" /\ tlog[n].ret = "true")
                => tlog[n + 1].ret = "true"

\* C21: every genre of the enumeration but the UNKNOWN sentinel has between
\* two and three neighbours in the similarity matrix.
EveryGenreHasNeighbours ==
    (call.op = "similar_genres" /\ call.args[1] # UNKNOWN) =>
        Len(call.ret) \in 2..3

\* the names one tag field gives, in the order of the payload
TagSeq(field) ==
    IF field.kind = "list"
    THEN LET Named(t) == t.isdict /\ t.hasname
             names == SelectSeq(field.items, Named)
         IN  [n \in 1..Len(names) |-> names[n].name]
    ELSE IF field.kind = "single" /\ field.items[1].hasname
    THEN <<field.items[1].name>>
    ELSE <<>>

RECURSIVE Flatten(_)
Flatten(seqs) == IF seqs = <<>> THEN <<>> ELSE Head(seqs) \o Flatten(Tail(seqs))

\* a sequence without the repetitions of its earlier elements
FirstSeen(seq) ==
    LET Keep(n) == \A m \in 1..(n - 1) : seq[m] # seq[n]
        kept == {n \in 1..Len(seq) : Keep(n)}
        Rank(n) == Cardinality({m \in kept : m <= n})
    IN  [r \in 1..Cardinality(kept) |-> seq[CHOOSE n \in kept : Rank(n) = r]]

\* the pool in the order the claim states: provider A's track tags, A's artist
\* tags, A's similar-track tags, then provider B's tags
PoolingOrder(lf, mb) ==
    FirstSeen(
        (IF lf.present
         THEN TagSeq(lf.toptags)
              \o (IF lf.artist_info.present THEN TagSeq(lf.artist_info.tags) ELSE <<>>)
              \o Flatten([n \in 1..Len(lf.similar_tracks) |->
                              TagSeq(lf.similar_tracks[n].toptags)])
         ELSE <<>>)
        \o (IF mb.present THEN TagSeq(mb.taglist) ELSE <<>>))

\* C22: the metadata vote's genre is the one the payloads determine, a tie
\* going to the tag seen first in the pooling order.
TieGoesToFirstSeen ==
    (OnMetadataPath /\ pc \in {"update", "return"}) =>
        analysis.predicted_genre =
            MetadataVote([combined_genres |->
                              PoolingOrder(lastfm_data, musicbrainz_data)]).genre

\* research_track returned its result for the track in hand
ResearchReturned == ResearchCalled /\ pc \in {"analyze", "update", "match"}

\* C23: the pool research_track returns holds lowercase strings only, no two
\* of them equal when compared without regard to case.
PoolIsLowercaseAndDeduplicated ==
    ResearchReturned =>
        LET genres == research.combined_genres
        IN  /\ \A n \in 1..Len(genres) :
                   genres[n] # NONE => Lower(genres[n]) = genres[n]
            /\ \A m, n \in 1..Len(genres) :
                   (m # n /\ genres[m] # NONE /\ genres[n] # NONE)
                       => Lower(genres[m]) # Lower(genres[n])

\* C24: cleaning a cleaned title gives it back unchanged, and "01 - Song.mp3"
\* cleans to "song".
TitleCleaningIsIdempotent ==
    call.op = "clean_title" =>
        /\ clean_title_for_search(call.ret) = call.ret
        /\ call.args[1] = "01 - Song.mp3" => call.ret = "song"

\* C25: _calculate_similarity is symmetric and lies in [0,1]; it is 1 for a
\* non-empty string and itself, 0 for strings without a common word, strictly
\* between for strings sharing some but not all words, and 1/3 for
\* "hello world" and "hello there".
SimilarityIsJaccard ==
    call.op = "similarity" =>
        LET a == call.args[1]
            b == call.args[2]
            sim == call.ret
        IN  /\ FracEq(sim, calculate_similarity(b, a))
            /\ InUnitInterval(sim)
            /\ (a = b /\ a # "") => sim.n = sim.d
            /\ Words(a) \cap Words(b) = {} => sim.n = 0
            /\ (Words(a) \cap Words(b) # {} /\ Words(a) # Words(b))
                   => (0 < sim.n /\ sim.n < sim.d)
            /\ (a = "hello world" /\ b = "hello there") => sim.n * 3 = sim.d

\* C25 as amended: the same, with similarity 1 for a string and itself when
\* the string holds at least one word (a string of blanks has no word and,
\* sharing no word with itself, gives 0).
SimilarityIsJaccardOnWords ==
    call.op = "similarity" =>
        LET a == call.args[1]
            b == call.args[2]
            sim == call.ret
        IN  /\ FracEq(sim, calculate_similarity(b, a))
            /\ InUnitInterval(sim)
            /\ (a = b /\ Words(a) # {}) => sim.n = sim.d
            /\ (a = b /\ Words(a) = {}) => sim.n = 0
            /\ Words(a) \cap Words(b) = {} => sim.n = 0
            /\ (Words(a) \cap Words(b) # {} /\ Words(a) # Words(b))
                   => (0 < sim.n /\ sim.n < sim.d)
            /\ Words(a) \cap Words(b) # {} =>
                   sim.n * Cardinality(Words(a) \cup Words(b))
                       = sim.d * Cardinality(Words(a) \cap Words(b))
            /\ (a = "hello world" /\ b = "hello there") => sim.n * 3 = sim.d

\* "hello world" was compared with "hello there" and gave one third
PartialMatchSeen ==
    /\ call.op = "similarity"
    /\ call.args = <<"hello world", "hello there">>
    /\ call.ret.n = 1 /\ call.ret.d = 3

\* update_track_genre was called for the track in hand
GenreWriteIssued == \E n \in DOMAIN tlog : tlog[n].op = "update_track_genre"

\* C26: no update_track_genre call carries the UNKNOWN sentinel, and no track
\* of the store has it as its genre.
UnknownIsNeverWritten ==
    /\ GenreWriteIssued => analysis.predicted_genre # UNKNOWN
    /\ \A n \in DOMAIN lexicon.tracks : lexicon.tracks[n].current_genre # UNKNOWN

\* the pool holds two or more tags that differ without regard to case
SeveralTagsPooled ==
    Cardinality({Lower(g) : g \in Range(research.combined_genres)}) >= 2

\* C27: on the metadata path a pool with two or more tags that differ
\* case-insensitively gives a confidence of at most 1/2, so the track is
\* skipped and no write is issued.
SeveralTagsAreSkipped ==
    (OnMetadataPath /\ SeveralTagsPooled) =>
        /\ 2 * analysis.confidence.n <= analysis.confidence.d
        /\ pc = "return" /\ result.skipped
        /\ ~GenreWriteIssued

\* C28: the remix-specific pass gives no playlist that the direct pass does not
\* give, so match_track_to_playlists returns the same set for a remix as for
\* the same genre and snapshot without the remix flag.
RemixPassAddsNothing ==
    call.op = "match" =>
        LET genre == call.args[1]
            snapshot == call.args[3]
        IN  /\ find_remix_specific_matches(genre, snapshot)
                   \subseteq find_direct_genre_matches(genre, snapshot)
            /\ call.ret = match_track_to_playlists(
                              [predicted_genre |-> genre, is_remix |-> ~call.args[2]],
                              snapshot)

\* the matcher was called for a remix with a snapshot of two matching
\* playlists, in which the remix pass finds one
RemixPassSeen ==
    /\ call.op = "match" /\ call.args[2]
    /\ find_remix_specific_matches(call.args[1], call.args[3]) # {}
    /\ Cardinality(call.ret) = 2

\* the tracks of the store whose genre a write of this run changed (a track is
\* processed once, and written only when the genre differs)
GenreWritesDone ==
    {n \in DOMAIN lexicon.tracks :
        lexicon.tracks[n].current_genre # LibraryTrack(n).current_genre}

\* C29: at the end of a run the summary's 'tracks_updated' is the number of
\* genre writes the store accepted and 'playlist_additions' the number of
\* adds it accepted.
CountersMatchWrites ==
    (pc = "done" /\ outcome.has_summary) =>
        /\ outcome.summary.tracks_updated = Cardinality(GenreWritesDone)
        /\ outcome.summary.playlist_additions = Cardinality(added)

\* the second run is under way or over
SecondRun == call.op = "rerun"

\* C30: a second non-dry run on the store a first run left, in which every
\* write succeeded, with the same provider answers, issues no genre write and
\* no add, and leaves the store as it found it.
RerunChangesNothing ==
    SecondRun =>
        /\ \A n \in DOMAIN tlog :
               tlog[n].op \notin {"update_track_genre", "add_track_to_playlist"}
        /\ added = {}
        /\ lexicon = call.args[1]

====
